---- MODULE Spec2Model ----
(***************************************************************************)
(* scratch: creation, listing and deletion of local scratch environments.  *)
(* The model covers the Spec value, the Scaffolder and its provisioner     *)
(* (env.go), the pebble-backed store and the three commands new / list /   *)
(* delete (cmd.go).                                                        *)
(*                                                                         *)
(* A Go string is a sequence of one-character strings: <<"a","/","b">> is  *)
(* "a/b".  The filesystem is a map from directory paths (sequences of path *)
(* components) to what the provisioner has left in them.                   *)
(*                                                                         *)
(* Every operation is an operator from the state it reads and what the     *)
(* surroundings answer to its result and the state it leaves; a value that *)
(* the code keeps in a local variable is handed on as an argument.         *)
(***************************************************************************)
EXTENDS Integers, Sequences, FiniteSets, TLC

VARIABLES
    store,    \* the pebble database: key (string) -> value (payload)
    disk,     \* existing directories: path components -> content
    locked,   \* directories whose permissions forbid searching them
    written,  \* the keys the store calls exercised on their own have put
    last      \* what the last command or store call did and returned

vars == <<store, disk, locked, written, last>>

(***************************************************************************)
(* Bounds of the model.                                                    *)
(***************************************************************************)
\* how many of the names of NameList the commands are run with
MaxNames == 2

(***************************************************************************)
(* Strings.                                                                *)
(***************************************************************************)
\* the byte value of the characters the model uses (ASCII)
Code(c) ==
    CASE c = " " -> 32
      [] c = "." -> 46
      [] c = "/" -> 47
      [] c = ":" -> 58
      [] c = "a" -> 97
      [] c = "b" -> 98
      [] c = "d" -> 100
      [] c = "h" -> 104
      [] c = "n" -> 110
      [] c = "o" -> 111
      [] c = "p" -> 112
      [] c = "r" -> 114
      [] c = "t" -> 116
      [] c = "y" -> 121
      [] OTHER   -> 255

\* bytewise comparison of two strings, the order of pebble's default comparer
RECURSIVE BytesLess(_, _)
BytesLess(s, t) ==
    IF t = <<>> THEN FALSE
    ELSE IF s = <<>> THEN TRUE
    ELSE IF Code(Head(s)) # Code(Head(t)) THEN Code(Head(s)) < Code(Head(t))
    ELSE BytesLess(Tail(s), Tail(t))

\* the least key of S in byte order
LeastKey(S) == CHOOSE k \in S : \A o \in S \ {k} : BytesLess(k, o)

\* the keys of S in ascending byte order, after those of acc
RECURSIVE SortedFrom(_, _, _)
SortedFrom(S, m, acc) ==
    IF S = {m} THEN Append(acc, m)
    ELSE SortedFrom(S \ {m}, LeastKey(S \ {m}), Append(acc, m))

SortedKeys(S) == IF S = {} THEN <<>> ELSE SortedFrom(S, LeastKey(S), <<>>)

(***************************************************************************)
(* path/filepath on a Unix system.                                         *)
(***************************************************************************)
\* strings.Split(s, "/"): the pieces between separators, empty ones included
RECURSIVE SplitAcc(_, _, _)
SplitAcc(s, cur, acc) ==
    IF s = <<>> THEN Append(acc, cur)
    ELSE IF Head(s) = "/" THEN SplitAcc(Tail(s), <<>>, Append(acc, cur))
    ELSE SplitAcc(Tail(s), Append(cur, Head(s)), acc)

Split(s) == SplitAcc(s, <<>>, <<>>)

\* filepath.Clean of a rooted path, as its components: empty and "."
\* components go, ".." drops the component before it and stays at the root
RECURSIVE CleanAcc(_, _)
CleanAcc(parts, acc) ==
    IF parts = <<>> THEN acc
    ELSE IF Head(parts) = <<>> \/ Head(parts) = <<".">>
    THEN CleanAcc(Tail(parts), acc)
    ELSE IF Head(parts) = <<".", ".">>
    THEN CleanAcc(Tail(parts),
                  IF acc = <<>> THEN acc ELSE SubSeq(acc, 1, Len(acc) - 1))
    ELSE CleanAcc(Tail(parts), Append(acc, Head(parts)))

Components(path) == CleanAcc(Split(path), <<>>)

\* the path string of a component list
RECURSIVE PathOf(_)
PathOf(comps) ==
    IF comps = <<>> THEN <<>>
    ELSE <<"/">> \o Head(comps) \o PathOf(Tail(comps))

RootOr(p) == IF p = <<>> THEN <<"/">> ELSE p

\* filepath.Clean of a rooted path: "/" for the root
Clean(path) == RootOr(PathOf(Components(path)))

\* filepath.Join(wd, name) for a rooted wd: empty elements are ignored, the rest
\* are joined with the separator and the result is cleaned
Join(wd, name) ==
    IF name = <<>> THEN Clean(wd) ELSE Clean(wd \o <<"/">> \o name)

\* filepath.Abs of a path that is already rooted
Abs(dir) == Clean(dir)

IsPrefix(p, q) == Len(p) <= Len(q) /\ SubSeq(q, 1, Len(p)) = p
IsProperPrefix(p, q) == Len(p) < Len(q) /\ IsPrefix(p, q)
Prefixes(c) == {SubSeq(c, 1, k) : k \in 0..Len(c)}

(***************************************************************************)
(* Spec (env.go).                                                          *)
(***************************************************************************)
PythonSpec == <<"p", "y", "t", "h", "o", "n">>

\* a variant that leaves the type out of the identifier
SpecIDBare(t, name) == name

SpecID(t, name) == t \o <<":">> \o name

NewSpec(name, t, wd) == [Name |-> name, Type |-> t, Path |-> Join(wd, name)]

ID(s) == SpecID(s.Type, s.Name)

ZeroSpec == [Name |-> <<>>, Type |-> <<>>, Path |-> <<>>]

\* encoding/json writes a byte that is not valid UTF-8 as U+FFFD
ToValidUTF8(s) == [i \in 1..Len(s) |-> IF s[i] = "xFF" THEN "uFFFD" ELSE s[i]]

\* json.MarshalIndent(&s, "", " "): the object's tokens, fields in declaration order
MarshalIndent(s) ==
    <<"{", "Name", ToValidUTF8(s.Name), "Type", ToValidUTF8(s.Type),
           "Path", ToValidUTF8(s.Path), "}">>

\* the value the object's tokens give field f: the last occurrence wins, a
\* field that does not occur keeps the zero value
RECURSIVE FieldOf(_, _, _)
FieldOf(toks, f, dflt) ==
    IF Len(toks) < 2 THEN dflt
    ELSE FieldOf(SubSeq(toks, 3, Len(toks)), f,
                 IF toks[1] = f THEN toks[2] ELSE dflt)

\* json.Unmarshal accepts the payload: it is one complete object
WellFormed(data) ==
    /\ Len(data) >= 2
    /\ data[1] = "{"
    /\ data[Len(data)] = "}"
    /\ (Len(data) - 2) % 2 = 0

Decoded(body) ==
    [err  |-> "none",
     spec |-> [Name |-> FieldOf(body, "Name", <<>>),
               Type |-> FieldOf(body, "Type", <<>>),
               Path |-> FieldOf(body, "Path", <<>>)]]

\* LoadSpec: the decoded Spec, or Spec{} and an error
LoadSpec(data) ==
    IF ~WellFormed(data) THEN [err |-> "unmarshal spec", spec |-> ZeroSpec]
    ELSE Decoded(SubSeq(data, 2, Len(data) - 1))

(***************************************************************************)
(* The store: PebbleStore over a pebble database db (key -> value).  io is *)
(* whether the engine fails the call with an I/O error.                    *)
(***************************************************************************)
\* pebble's DB.Get
DbGet(db, key, io) ==
    IF io THEN [err |-> "io", val |-> <<>>]
    ELSE IF key \in DOMAIN db THEN [err |-> "none", val |-> db[key]]
    ELSE [err |-> "ErrNotFound", val |-> <<>>]

\* PebbleStore.Get: the engine's error wrapped, or a copy of the value
Copied(r) == IF r.err # "none" THEN [err |-> r.err, val |-> <<>>] ELSE r

StoreGet(db, key, io) == Copied(DbGet(db, key, io))

\* PebbleStore.Exists
Found(r) ==
    IF r.err # "none"
    THEN IF r.err = "ErrNotFound" THEN [err |-> "none", ok |-> FALSE]
         ELSE [err |-> "check key exists", ok |-> FALSE]
    ELSE [err |-> "none", ok |-> TRUE]

StoreExists(db, key, io) == Found(StoreGet(db, key, io))

\* a variant of Put that keeps the value a key already has
PutIfAbsent(db, key, data, io) ==
    IF io THEN [err |-> "io", db |-> db]
    ELSE [err |-> "none",
          db  |-> [k \in DOMAIN db \cup {key} |-> IF k \in DOMAIN db THEN db[k] ELSE data]]

\* PebbleStore.Put: DB.Set, an upsert
StorePut(db, key, data, io) ==
    IF io THEN [err |-> "io", db |-> db]
    ELSE [err |-> "none",
          db  |-> [k \in DOMAIN db \cup {key} |-> IF k = key THEN data ELSE db[k]]]

\* PebbleStore.Delete: DB.Delete writes a tombstone without reading the key
StoreDelete(db, key, io) ==
    IF io THEN [err |-> "io", db |-> db]
    ELSE [err |-> "none", db |-> [k \in DOMAIN db \ {key} |-> db[k]]]

\* PebbleStore.List: every key in iteration order, or one element carrying the error
Listed(ks) == [i \in 1..Len(ks) |-> [key |-> ks[i], err |-> "none"]]

StoreList(db, io) ==
    IF io THEN <<[key |-> <<>>, err |-> "io"]>>
    ELSE Listed(SortedKeys(DOMAIN db))

(***************************************************************************)
(* The filesystem.  d maps each existing directory (its components) to its *)
(* content: "empty", "manifest" (uv init has run) or "env" (uv init and uv *)
(* venv have run).  lk holds the directories that may not be searched.     *)
(***************************************************************************)
Root == <<>>

\* every directory above c can be searched
Searchable(c, lk) == \A p \in Prefixes(c) : p = c \/ p \notin lk

\* a variant of os.Stat that never finds anything
StatNothing(d, lk, path) == FALSE

\* os.Stat(path) returns no error: the path names an existing entry and the
\* directories leading to it can be searched
StatAt(d, lk, c) == c \in DOMAIN d /\ Searchable(c, lk)

Stat(d, lk, path) == path # <<>> /\ StatAt(d, lk, Components(path))

\* Spec.Exists
SpecExists(s, d, lk) == Stat(d, lk, s.Path)

Least(S) == CHOOSE n \in S : \A m \in S : n <= m

\* how far down c directories can be made: to the first directory that
\* cannot be searched, and no further than the I/O fault allows (reach)
Reachable(c, lk, reach) ==
    Least({Len(q) : q \in {p \in Prefixes(c) : p # c /\ p \in lk}} \cup {reach})

WithDirs(d, new) ==
    [p \in DOMAIN d \cup new |-> IF p \in DOMAIN d THEN d[p] ELSE "empty"]

MkdirTo(d, c, n) ==
    [err  |-> IF n >= Len(c) THEN "none" ELSE "mkdir",
     disk |-> WithDirs(d, {p \in Prefixes(c) : Len(p) <= n})]

\* os.MkdirAll(path, 0755): makes the missing directories from the top down and
\* stops at the first one it cannot make
MkdirAllAt(d, lk, c, reach) == MkdirTo(d, c, Reachable(c, lk, reach))

MkdirAll(d, lk, path, reach) == MkdirAllAt(d, lk, Components(path), reach)

\* EnsureDirectory
Ensured(r) ==
    [err |-> IF r.err # "none" THEN "ensure directory exists" ELSE "none",
     disk |-> r.disk]

EnsureDirectory(d, lk, dir, reach) == Ensured(MkdirAll(d, lk, dir, reach))

\* the directories at or below c
Subtree(d, c) == {p \in DOMAIN d : IsPrefix(c, p)}

\* os.RemoveAll cannot succeed on c: a directory in the tree cannot be read
\* and is not empty
RemoveBlocked(d, lk, c) ==
    \E p \in Subtree(d, c) \cap lk :
        d[p] # "empty" \/ \E q \in Subtree(d, p) : q # p

Without(d, lk, lost, err) ==
    [err |-> err, disk |-> [p \in DOMAIN d \ lost |-> d[p]], locked |-> lk \ lost]

\* a variant of os.RemoveAll that removes nothing and reports success
KeepTree(d, lk, c, fail, gone) == Without(d, lk, {}, "none")

\* os.RemoveAll of the directory c.  fail is whether an I/O fault stops it;
\* it then leaves c itself and has removed the trees in gone below it
RemoveTree(d, lk, c, fail, gone) ==
    IF c \notin DOMAIN d THEN Without(d, lk, {}, "none")
    ELSE IF fail \/ RemoveBlocked(d, lk, c)
    THEN Without(d, lk,
                 {p \in Subtree(d, c) :
                    \E g \in gone : /\ IsProperPrefix(c, g)
                                    /\ IsPrefix(g, p)
                                    /\ ~RemoveBlocked(d, lk, g)},
                 "remove")
    ELSE Without(d, lk, Subtree(d, c), "none")

RemoveAll(d, lk, path, fail, gone) == RemoveTree(d, lk, Components(path), fail, gone)

(***************************************************************************)
(* Provisioner and Scaffolder (env.go).                                    *)
(***************************************************************************)
\* CommandsExist(names...): the first name exec.LookPath does not find
RECURSIVE CommandsExist(_, _)
CommandsExist(names, installed) ==
    IF names = <<>> THEN [err |-> "none", name |-> ""]
    ELSE IF Head(names) \notin installed
         THEN [err |-> "command not found", name |-> Head(names)]
    ELSE CommandsExist(Tail(names), installed)

\* PythonEnvironment.Ready
Ready(installed) ==
    IF CommandsExist(<<"uv">>, installed).err # "none"
    THEN "missing required commands" ELSE "none"

\* PythonEnvironment.Provision: EnsureDirectory, uv init, uv venv.  prov names
\* the uv command that fails ("init", "venv"), if one does
RunUv(e, c, prov) ==
    IF e.err # "none" THEN e
    ELSE IF prov = "init" THEN [err |-> "init uv", disk |-> e.disk]
    ELSE IF prov = "venv"
    THEN [err |-> "uv venv", disk |-> [e.disk EXCEPT ![c] = "manifest"]]
    ELSE [err |-> "none", disk |-> [e.disk EXCEPT ![c] = "env"]]

ProvisionAt(d, lk, dir, c, prov) ==
    RunUv(EnsureDirectory(d, lk, dir, Len(c)), c, prov)

Provision(d, lk, dir, prov) == ProvisionAt(d, lk, dir, Components(dir), prov)

\* Scaffolder.Provisioner
Provisioner(specType) ==
    IF specType = PythonSpec THEN [err |-> "none", p |-> "PythonEnvironment"]
    ELSE [err |-> "unknown spec type", p |-> "nil"]

\* Scaffolder.Build.  env.fault names the one thing the surroundings refuse
\* during the run ("uv": the command is not on PATH; "mkdir": MkdirAll gets
\* env.reach directories deep; "init", "venv": that uv command fails).
\* steps lists the steps that ran, in the order they ran
Provisioned(v) ==
    [err |-> v.err,
     steps |-> <<"Resolve", "CheckReady", "CheckFree", "CreateDirs", "Provision">>,
     disk |-> v.disk]

\* a variant that removes the directory again when Provision fails
CreatedDirsUndone(m, s, lk, env) ==
    IF m.err # "none"
    THEN [err |-> "ensure output directory",
          steps |-> <<"Resolve", "CheckReady", "CheckFree", "CreateDirs">>,
          disk |-> m.disk]
    ELSE IF Provision(m.disk, lk, s.Path, env.fault).err # "none"
    THEN [err |-> Provision(m.disk, lk, s.Path, env.fault).err,
          steps |-> <<"Resolve", "CheckReady", "CheckFree", "CreateDirs", "Provision">>,
          disk |-> [p \in DOMAIN m.disk \ Subtree(m.disk, Components(s.Path)) |-> m.disk[p]]]
    ELSE Provisioned(Provision(m.disk, lk, s.Path, env.fault))

CreatedDirs(m, s, lk, env) ==
    IF m.err # "none"
    THEN [err |-> "ensure output directory",
          steps |-> <<"Resolve", "CheckReady", "CheckFree", "CreateDirs">>,
          disk |-> m.disk]
    ELSE Provisioned(Provision(m.disk, lk, s.Path, env.fault))

\* a variant of Build that does not look at what Resolve returned
BuildUnresolved(s, d, lk, env) ==
    IF Ready(IF env.fault = "uv" THEN {} ELSE {"uv"}) # "none"
    THEN [err |-> "provisioner not ready", steps |-> <<"Resolve", "CheckReady">>,
          disk |-> d]
    ELSE IF Stat(d, lk, s.Path)
    THEN [err |-> "environment already exists at location",
          steps |-> <<"Resolve", "CheckReady", "CheckFree">>, disk |-> d]
    ELSE CreatedDirs(MkdirAll(d, lk, s.Path, env.reach), s, lk, env)

Build(s, d, lk, env) ==
    IF Provisioner(s.Type).err # "none"
    THEN [err |-> "unknown environment type", steps |-> <<"Resolve">>, disk |-> d]
    ELSE IF Ready(IF env.fault = "uv" THEN {} ELSE {"uv"}) # "none"
    THEN [err |-> "provisioner not ready", steps |-> <<"Resolve", "CheckReady">>,
          disk |-> d]
    ELSE IF Stat(d, lk, s.Path)
    THEN [err |-> "environment already exists at location",
          steps |-> <<"Resolve", "CheckReady", "CheckFree">>, disk |-> d]
    ELSE CreatedDirs(MkdirAll(d, lk, s.Path, env.reach), s, lk, env)

(***************************************************************************)
(* The commands (cmd.go).                                                  *)
(***************************************************************************)
\* DefaultDataDir: the data directory of the user running scratch
DefaultDataDir == <<"/", "d">>

\* NewCmd.resolveOutputDir.  home is whether the home directory resolves
resolveOutputDir(c, home) ==
    IF c.Directory = <<>>
    THEN IF home THEN [err |-> "none", dir |-> Abs(DefaultDataDir)]
         ELSE [err |-> "home dir", dir |-> <<>>]
    ELSE [err |-> "none", dir |-> Abs(c.Directory)]

\* NewCmd.spec
specIn(c, o) ==
    IF o.err # "none" THEN [err |-> o.err, spec |-> ZeroSpec]
    ELSE [err |-> "none", spec |-> NewSpec(c.Name, c.Type, o.dir)]

spec(c, home) == specIn(c, resolveOutputDir(c, home))

\* CLIContext.Store: the config directory, then pebble.Open
Store(fault) ==
    IF fault = "home" THEN "home dir"
    ELSE IF fault = "open" THEN "get db"
    ELSE "none"

\* Spec.Save
Save(s, db, io) == StorePut(db, ID(s), MarshalIndent(s), io)

\* OpenFolder: RunCommand(program, dir)
OpenFolder(openOk) == IF openOk THEN "none" ELSE "open folder"

\* Scaffolder.Build was not called
NotBuilt == [err |-> "skipped", steps |-> <<>>]

\* what one run of NewCmd.Run returned and left: err is the error returned,
\* b what Scaffolder.Build returned and the steps it ran (NotBuilt if it was
\* not called), steps the calls NewCmd.Run made in order
NewResult(s, err, b, steps, db, d) ==
    [err |-> err, build |-> b.err, bsteps |-> b.steps, steps |-> steps,
     store |-> db, disk |-> d, id |-> ID(s), path |-> s.Path]

\* a variant that opens the folder whatever --no-open says
RunOpened(c, s, sv, b, env) ==
    IF sv.err # "none"
    THEN NewResult(s, sv.err, b, <<"Exists", "Build", "Save">>, sv.db, b.disk)
    ELSE NewResult(s, OpenFolder(env.fault # "openfolder"), b,
                   <<"Exists", "Build", "Save", "Open">>, sv.db, b.disk)

\* NewCmd.Run from the result sv of Spec.Save on
RunSaved(c, s, sv, b, env) ==
    IF sv.err # "none"
    THEN NewResult(s, sv.err, b, <<"Exists", "Build", "Save">>, sv.db, b.disk)
    ELSE IF ~c.NoOpen
    THEN NewResult(s, OpenFolder(env.fault # "openfolder"), b,
                   <<"Exists", "Build", "Save", "Open">>, sv.db, b.disk)
    ELSE NewResult(s, "none", b, <<"Exists", "Build", "Save">>, sv.db, b.disk)

\* a variant that does not look at Scaffolder.Build's error and saves the Spec
RunUnbuilt(c, s, b, db, env) == RunSaved(c, s, Save(s, db, env.fault = "put"), b, env)

\* NewCmd.Run from the result b of Scaffolder.Build on
RunBuilt(c, s, b, db, env) ==
    IF b.err # "none"
    THEN NewResult(s, b.err, b, <<"Exists", "Build">>, db, b.disk)
    ELSE RunSaved(c, s, Save(s, db, env.fault = "put"), b, env)

\* a variant that does not look at the answer of Storer.Exists
RunUnchecked(c, s, ex, db, d, lk, env) == RunBuilt(c, s, Build(s, d, lk, env), db, env)

\* NewCmd.Run from the result ex of Storer.Exists on
RunChecked(c, s, ex, db, d, lk, env) ==
    IF ex.err # "none" THEN NewResult(s, ex.err, NotBuilt, <<"Exists">>, db, d)
    ELSE IF ex.ok
    THEN NewResult(s, "already exists elsewhere", NotBuilt, <<"Exists">>, db, d)
    ELSE RunBuilt(c, s, Build(s, d, lk, env), db, env)

\* NewCmd.Run from the result sp of NewCmd.spec on
RunSpec(c, sp, db, d, lk, env) ==
    IF sp.err # "none" THEN NewResult(sp.spec, sp.err, NotBuilt, <<>>, db, d)
    ELSE IF Store(env.fault) # "none"
    THEN NewResult(sp.spec, Store(env.fault), NotBuilt, <<>>, db, d)
    ELSE RunChecked(c, sp.spec,
                    StoreExists(db, ID(sp.spec), env.fault = "exists"),
                    db, d, lk, env)

\* NewCmd.Run.  env.fault may also name the home directory lookup ("home"),
\* pebble.Open ("open"), a store call ("exists", "put") or the program that
\* opens the folder ("openfolder")
NewCmdRun(c, db, d, lk, env) ==
    RunSpec(c, spec(c, env.fault # "home"), db, d, lk, env)

\* fmt.Scanln(&input) on the next line of standard input, a list of words:
\* one word is the input; none, more than one, or no line at all is an error
Scanln(lines) ==
    IF lines = <<>> THEN [err |-> "EOF", input |-> ""]
    ELSE IF Len(Head(lines)) = 0 THEN [err |-> "unexpected newline", input |-> ""]
    ELSE IF Len(Head(lines)) > 1 THEN [err |-> "expected newline", input |-> Head(lines)[1]]
    ELSE [err |-> "none", input |-> Head(lines)[1]]

\* one more prompt was printed before the answer n
Reprompted(n) == [n EXCEPT !.prompts = @ + 1]

\* askForConfirmation: the answer and the lines it has not read
RECURSIVE askForConfirmation(_)
Scanned(r, lines) ==
    IF r.err # "none" THEN [ok |-> FALSE, err |-> r.err, prompts |-> 1,
                            rest |-> IF lines = <<>> THEN lines ELSE Tail(lines)]
    ELSE IF r.input = "y" \/ r.input = "yes"
    THEN [ok |-> TRUE, err |-> "none", prompts |-> 1, rest |-> Tail(lines)]
    ELSE IF r.input = "n" \/ r.input = "no"
    THEN [ok |-> FALSE, err |-> "none", prompts |-> 1, rest |-> Tail(lines)]
    ELSE Reprompted(askForConfirmation(Tail(lines)))

askForConfirmation(lines) == Scanned(Scanln(lines), lines)

\* Spec.String
String(s) == s.Name \o <<" ", "(">> \o s.Type \o <<")", " ", "-", " ">> \o s.Path

\* a variant in which an entry whose directory is missing ends the listing
listStrict(l, d, lk, key, ld, acc) ==
    IF ld.err # "none" THEN [acc EXCEPT !.err = ld.err]
    ELSE IF ~SpecExists(ld.spec, d, lk)
    THEN [acc EXCEPT !.err = "environment does not exist"]
    ELSE [acc EXCEPT !.lines = Append(@, IF l.DirectoryOnly THEN ld.spec.Path
                                         ELSE String(ld.spec)),
                     !.reported = Append(@, key)]

\* the function ListCmd.Run hands to ListFunc, from the decoded payload ld on:
\* acc is what has been printed (lines, and the keys they were printed for)
\* and logged so far
listLoaded(l, d, lk, key, ld, acc) ==
    IF ld.err # "none" THEN [acc EXCEPT !.err = ld.err]
    ELSE IF ~SpecExists(ld.spec, d, lk)
    THEN [acc EXCEPT !.logged = Append(@, ID(ld.spec))]
    ELSE [acc EXCEPT !.lines = Append(@, IF l.DirectoryOnly THEN ld.spec.Path
                                         ELSE String(ld.spec)),
                     !.reported = Append(@, key)]

listFunc(l, d, lk, key, data, acc) == listLoaded(l, d, lk, key, LoadSpec(data), acc)

\* PebbleStore.ListFunc with ListCmd.Run's function as handle: the entries in
\* key order, ks being the keys the iterator has yet to reach; the first
\* error of handle ends the iteration
RECURSIVE ListFuncFrom(_, _, _, _, _, _)
\* a variant that goes on to the next entry whatever handle returned
HandledAnyway(r, ks, db, l, d, lk) == ListFuncFrom(Tail(ks), db, l, d, lk, r)

Handled(r, ks, db, l, d, lk) ==
    IF r.err # "none" THEN r ELSE ListFuncFrom(Tail(ks), db, l, d, lk, r)

ListFuncFrom(ks, db, l, d, lk, acc) ==
    IF ks = <<>> THEN acc
    ELSE Handled(listFunc(l, d, lk, Head(ks), db[Head(ks)],
                          [acc EXCEPT !.visited = Append(@, Head(ks))]),
                 ks, db, l, d, lk)

NoOutput == [err |-> "none", visited |-> <<>>, lines |-> <<>>, reported |-> <<>>,
             logged |-> <<>>]

StoreListFunc(db, l, d, lk, io) ==
    IF io THEN [NoOutput EXCEPT !.err = "list keys"]
    ELSE ListFuncFrom(SortedKeys(DOMAIN db), db, l, d, lk, NoOutput)

\* ListCmd.Run
ListCmdRun(l, db, d, lk, env) ==
    IF Store(env.fault) # "none" THEN [NoOutput EXCEPT !.err = Store(env.fault)]
    ELSE StoreListFunc(db, l, d, lk, env.fault = "iter")

\* DeleteCmd.Validate
\* a variant that lets --id and --name through together
ValidateLoose(c) ==
    IF c.All
    THEN IF c.ID # <<>> \/ c.Name # <<>>
         THEN "--all cannot be used with a specific ID or Name"
         ELSE "none"
    ELSE IF c.ID # <<>> \/ c.Name # <<>> THEN "none"
    ELSE "must specify --id, --name, or --all"

Validate(c) ==
    IF c.All
    THEN IF c.ID # <<>> \/ c.Name # <<>>
         THEN "--all cannot be used with a specific ID or Name"
         ELSE "none"
    ELSE IF c.ID # <<>>
    THEN IF c.Name # <<>> THEN "specify either --id OR --name, not both" ELSE "none"
    ELSE IF c.Name # <<>> THEN "none"
    ELSE "must specify --id, --name, or --all"

\* what one call of deleteKeyEnv returned and left: steps lists the calls it
\* made in order, st = [store, disk, locked, stdin] is the state it leaves
KeyResult(err, steps, st) == [err |-> err, steps |-> steps, st |-> st]

\* deleteKeyEnv from the result dl of Storer.Delete on
keyDeleted(dl, st, steps) ==
    IF dl.err # "none" THEN KeyResult(dl.err, steps, st)
    ELSE KeyResult("none", steps, [st EXCEPT !.store = dl.db])

\* a variant that does not look at the error of os.RemoveAll
keyRemovedAnyway(rm, st, key, steps, env) ==
    keyDeleted(StoreDelete(st.store, key, env.fault = "delete"),
               [st EXCEPT !.disk = rm.disk, !.locked = rm.locked],
               Append(steps, "Delete"))

\* deleteKeyEnv from the result rm of os.RemoveAll on (of no removal at all,
\* when Spec.Exists is false)
keyRemoved(rm, st, key, steps, env) ==
    IF rm.err # "none"
    THEN KeyResult("remove environment", steps,
                   [st EXCEPT !.disk = rm.disk, !.locked = rm.locked])
    ELSE keyDeleted(StoreDelete(st.store, key, env.fault = "delete"),
                    [st EXCEPT !.disk = rm.disk, !.locked = rm.locked],
                    Append(steps, "Delete"))

NotRemoved(st) == [err |-> "none", disk |-> st.disk, locked |-> st.locked]

\* a variant that goes on whatever was answered
keyUnconfirmed(ask, s, st, key, steps, env) ==
    IF ask.err # "none" THEN KeyResult(ask.err, steps, st)
    ELSE IF SpecExists(s, st.disk, st.locked)
    THEN keyRemoved(RemoveAll(st.disk, st.locked, s.Path,
                              env.fault = "remove", env.gone),
                    st, key, Append(steps, "RemoveAll"), env)
    ELSE keyRemoved(NotRemoved(st), st, key, steps, env)

\* deleteKeyEnv from the answer ask of the confirmation on
keyConfirmed(ask, s, st, key, steps, env) ==
    IF ask.err # "none" THEN KeyResult(ask.err, steps, st)
    ELSE IF ~ask.ok THEN KeyResult("none", steps, st)
    ELSE IF SpecExists(s, st.disk, st.locked)
    THEN keyRemoved(RemoveAll(st.disk, st.locked, s.Path,
                              env.fault = "remove", env.gone),
                    st, key, Append(steps, "RemoveAll"), env)
    ELSE keyRemoved(NotRemoved(st), st, key, steps, env)

\* the prompt of deleteKeyEnv has read standard input
keyAsked(ask, s, st, key, env) ==
    keyConfirmed(ask, s, [st EXCEPT !.stdin = ask.rest], key,
                 <<"Get", "Load", "Confirm">>, env)

\* deleteKeyEnv from the result ld of LoadSpec on
keyLoaded(ld, st, key, force, env) ==
    IF ld.err # "none" THEN KeyResult(ld.err, <<"Get", "Load">>, st)
    ELSE IF force
    THEN keyConfirmed([ok |-> TRUE, err |-> "none"], ld.spec, st, key,
                      <<"Get", "Load">>, env)
    ELSE keyAsked(askForConfirmation(st.stdin), ld.spec, st, key, env)

\* deleteKeyEnv from the result g of Storer.Get on
keyGot(g, st, key, force, env) ==
    IF g.err # "none" THEN KeyResult("get environment data", <<"Get">>, st)
    ELSE keyLoaded(LoadSpec(g.val), st, key, force, env)

\* DeleteCmd.deleteKeyEnv on the state st = [store, disk, locked, stdin].
\* env.fault may name the store call ("get", "delete") or os.RemoveAll
\* ("remove", which has then removed env.gone) that fails
deleteKeyEnv(st, key, force, env) ==
    keyGot(StoreGet(st.store, key, env.fault = "get"), st, key, force, env)

\* the surroundings of the call for the key numbered i: the fault strikes the
\* key numbered env.at
EnvAt(env, i) == IF env.at = i THEN env ELSE [env EXCEPT !.fault = "none"]

\* a variant of the loop that ends after the first key
eachOnce(r, keys, i, force, env, done) ==
    [err |-> r.err, st |-> r.st, done |-> Append(done, r.steps)]

\* the loop over the listed keys in DeleteCmd.Run.  done lists, for each key
\* handled, the steps that ran
RECURSIVE deleteEach(_, _, _, _, _, _)
\* a variant of the loop that goes on to the next key whatever the last returned
eachAnyway(r, keys, i, force, env, done) ==
    deleteEach(keys, i + 1, r.st, force, env, Append(done, r.steps))

eachDone(r, keys, i, force, env, done) ==
    IF r.err # "none"
    THEN [err |-> r.err, st |-> r.st, done |-> Append(done, r.steps)]
    ELSE deleteEach(keys, i + 1, r.st, force, env, Append(done, r.steps))

deleteEach(keys, i, st, force, env, done) ==
    IF i > Len(keys) THEN [err |-> "none", st |-> st, done |-> done]
    ELSE eachDone(deleteKeyEnv(st, keys[i], force, EnvAt(env, i)),
                  keys, i, force, env, done)

\* the keys DeleteCmd.Run collects from PebbleStore.List
RECURSIVE CollectKeys(_, _)
CollectKeys(listed, keys) ==
    IF listed = <<>> THEN [err |-> "none", keys |-> keys]
    ELSE IF Head(listed).err # "none" THEN [err |-> "get all keys", keys |-> <<>>]
    ELSE CollectKeys(Tail(listed), Append(keys, Head(listed).key))

DeleteResult(r, keys) == [err |-> r.err, st |-> r.st, keys |-> keys, done |-> r.done]

OneResult(r, key) == [err |-> r.err, st |-> r.st, keys |-> <<key>>, done |-> <<r.steps>>]

\* DeleteCmd.Run with --all, from the collected keys k on
deleteAll(k, c, st, env) ==
    IF k.err # "none" THEN [err |-> k.err, st |-> st, keys |-> <<>>, done |-> <<>>]
    ELSE DeleteResult(deleteEach(k.keys, 1, st, c.Force, env, <<>>), k.keys)

\* DeleteCmd.Run without --all, for the key the flags name
deleteOne(key, c, st, env) == OneResult(deleteKeyEnv(st, key, c.Force, env), key)

\* DeleteCmd.Run
DeleteCmdRun(c, st, env) ==
    IF Store(env.fault) # "none"
    THEN [err |-> Store(env.fault), st |-> st, keys |-> <<>>, done |-> <<>>]
    ELSE IF ~c.All
    THEN deleteOne(IF c.ID = <<>> THEN ID([Name |-> c.Name, Type |-> c.Type])
                   ELSE c.ID, c, st, env)
    ELSE deleteAll(CollectKeys(StoreList(st.store, env.fault = "list"), <<>>),
                   c, st, env)

\* scratch delete: kong validates the flags, then runs the command
DeleteMain(c, st, env) ==
    IF Validate(c) # "none"
    THEN [err |-> Validate(c), st |-> st, keys |-> <<>>, done |-> <<>>]
    ELSE DeleteCmdRun(c, st, env)

(***************************************************************************)
(* What the commands are run with.                                         *)
(***************************************************************************)
NameList == <<<<"a">>, <<".", "/", "a">>, <<"a", "/", ".">>, <<"b">>>>
Names == {NameList[i] : i \in 1..(IF MaxNames <= Len(NameList) THEN MaxNames ELSE Len(NameList))}
UnknownSpec == <<"r">>
Types == {PythonSpec, UnknownSpec}
Directories == {<<>>, <<"/", "d", "/", "a">>}

\* the paths an environment can have, and the depth of the deepest
EnvPaths ==
    {Components(NewSpec(n, PythonSpec, IF w = <<>> THEN DefaultDataDir ELSE w).Path) :
        n \in Names, w \in Directories}
Depth == CHOOSE n \in 0..8 : /\ \A c \in EnvPaths : Len(c) <= n
                            /\ \E c \in EnvPaths : Len(c) = n

\* what the surroundings can refuse during one run of scratch new
NewEnvs ==
    {[fault |-> f, reach |-> Depth] :
        f \in {"none", "exists", "uv", "init", "venv", "put", "openfolder"}}
    \cup {[fault |-> "mkdir", reach |-> r] : r \in 0..(Depth - 1)}

\* the home directory does not resolve, or pebble.Open fails
Startup == {[fault |-> f, reach |-> Depth] : f \in {"home", "open"}}

\* the runs of scratch new: --no-open is read only once the spec is saved, an
\* unknown type ends the run before uv, the directories or Put are reached,
\* and a failed start ends it whatever the name
NewRuns ==
    {[Name |-> n, Type |-> PythonSpec, Directory |-> w, NoOpen |-> FALSE, env |-> e] :
        n \in Names, w \in Directories, e \in NewEnvs}
    \cup {[Name |-> n, Type |-> PythonSpec, Directory |-> w, NoOpen |-> TRUE, env |-> e] :
        n \in Names, w \in Directories,
        e \in {x \in NewEnvs : x.fault \in {"none", "openfolder"}}}
    \cup {[Name |-> n, Type |-> UnknownSpec, Directory |-> <<>>, NoOpen |-> FALSE,
           env |-> e] :
        n \in Names, e \in {x \in NewEnvs : x.fault = "none"}}
    \cup {[Name |-> <<"a">>, Type |-> t, Directory |-> w, NoOpen |-> FALSE, env |-> e] :
        t \in Types, w \in Directories,
        e \in Startup \cup {x \in NewEnvs : x.fault \in {"exists", "uv"}}}

\* the keys scratch delete --id is given: those of the names, and one that
\* scratch new never stores
IDs == {SpecID(PythonSpec, n) : n \in Names} \cup {SpecID(UnknownSpec, <<"a">>)}

NoFlags == [ID |-> <<>>, Name |-> <<>>, Type |-> PythonSpec, Force |-> FALSE,
            All |-> FALSE]

\* flag combinations of scratch delete that select something
Selections ==
    {[NoFlags EXCEPT !.ID = i] : i \in IDs}
    \cup {[NoFlags EXCEPT !.Name = n, !.Type = t] : n \in Names, t \in Types}
    \cup {[NoFlags EXCEPT !.All = TRUE]}

\* flag combinations that select nothing, or more than one thing
Ambiguous ==
    {[NoFlags EXCEPT !.ID = i, !.Name = n, !.All = a] :
        i \in {<<>>, SpecID(PythonSpec, <<"a">>)}, n \in {<<>>, <<"a">>},
        a \in BOOLEAN} \ Selections

\* what is typed at the prompt of one key: lines of words
Answers ==
    {<<>>, <<<<"y">>>>, <<<<"no">>>>, <<<<>>>>, <<<<"y", "y">>>>,
     <<<<"x">>, <<"yes">>>>}

\* what is typed at the prompts of scratch delete --all
Stdins ==
    {<<>>, <<<<"x">>, <<"yes">>>>, <<<<"yes">>, <<"y">>>>, <<<<"n">>, <<"y">>>>,
     <<<<"y">>, <<"n">>>>, <<<<"y">>, <<"y">>, <<"y">>>>}

\* what the surroundings can refuse during one run of scratch delete
DeleteEnvs ==
    {[fault |-> f, at |-> 1, gone |-> {}] : f \in {"none", "list"}}
    \cup {[fault |-> f, at |-> k, gone |-> {}] :
        f \in {"get", "delete", "remove"}, k \in 1..MaxNames}
    \cup {[fault |-> "remove", at |-> k, gone |-> {g}] :
        k \in 1..MaxNames, g \in EnvPaths}

Quiet == [fault |-> "none", at |-> 1, gone |-> {}]

\* the runs of scratch delete: with --force nothing is read from standard
\* input, rejected flags end the run before anything is touched, --name only
\* spells the key differently, and a failed start ends it whatever the flags
ByKey == {c \in Selections : c.Name = <<>>}

DeleteRuns ==
    UNION {{[cmd |-> [c EXCEPT !.Force = TRUE], env |-> e, stdin |-> <<>>] :
                e \in {x \in DeleteEnvs : IF c.All THEN TRUE
                                          ELSE x.at = 1 /\ x.fault # "list"}} :
           c \in ByKey}
    \cup {[cmd |-> c, env |-> Quiet, stdin |-> i] :
        c \in {x \in ByKey : ~x.All}, i \in Answers}
    \cup {[cmd |-> c, env |-> Quiet, stdin |-> i] :
        c \in {x \in ByKey : x.All}, i \in Stdins}
    \cup {[cmd |-> [c EXCEPT !.Force = f], env |-> Quiet, stdin |-> <<<<"y">>>>] :
        c \in Selections \ ByKey, f \in BOOLEAN}
    \cup {[cmd |-> c, env |-> [Quiet EXCEPT !.fault = f], stdin |-> <<>>] :
        c \in Ambiguous, f \in {"none", "open"}}
    \cup {[cmd |-> [NoFlags EXCEPT !.All = TRUE, !.Force = TRUE],
           env |-> [Quiet EXCEPT !.fault = f], stdin |-> <<>>] : f \in {"home", "open"}}

ListRuns ==
    {[DirectoryOnly |-> o, env |-> [fault |-> "none"]] : o \in BOOLEAN}
    \cup {[DirectoryOnly |-> FALSE, env |-> [fault |-> f]] : f \in {"open", "iter"}}

\* the keys and payloads the store is called with on its own
StoreKeys == {SpecID(PythonSpec, <<"a">>), SpecID(PythonSpec, <<"b">>)}
Payloads ==
    {MarshalIndent(NewSpec(<<"a">>, PythonSpec, w)) :
        w \in {DefaultDataDir, <<"/", "d", "/", "a">>}}

\* nothing has been put by a store call
Unwritten == [k \in StoreKeys |-> [state |-> "never", val |-> <<>>, upsert |-> FALSE]]

(***************************************************************************)
(* The state machine of the commands.  Each command is one run of the      *)
(* scratch process: it starts when no other run is under way, and what it  *)
(* returned and printed is gone once the process has exited.               *)
(***************************************************************************)
\* no run of scratch is under way
Idle == [op |-> "idle"]

Init ==
    /\ store = <<>>
    /\ disk = [p \in {Root} |-> "empty"]
    /\ locked = {}
    /\ written = Unwritten
    /\ last = Idle

\* scratch new
Create ==
    \E c \in {x \in NewRuns : last = Idle} :
        \E r \in {NewCmdRun(c, store, disk, locked, c.env)} :
            /\ store' = r.store
            /\ disk' = r.disk
            /\ last' = [op |-> "new", id |-> r.id, path |-> r.path, type |-> c.Type,
                        noOpen |-> c.NoOpen, fault |-> c.env.fault,
                        err |-> r.err, build |-> r.build,
                        bsteps |-> r.bsteps, steps |-> r.steps]
            /\ UNCHANGED <<locked, written>>

\* scratch list
List ==
    \E l \in {x \in ListRuns : last = Idle} :
        \E r \in {ListCmdRun(l, store, disk, locked, l.env)} :
            /\ last' = [op |-> "list", fault |-> l.env.fault, err |-> r.err,
                        visited |-> r.visited, lines |-> r.lines,
                        reported |-> r.reported, logged |-> r.logged]
            /\ UNCHANGED <<store, disk, locked, written>>

\* scratch delete
Delete ==
    \E run \in {x \in DeleteRuns : last = Idle} :
        \E r \in {DeleteMain(run.cmd,
                             [store |-> store, disk |-> disk, locked |-> locked,
                              stdin |-> run.stdin], run.env)} :
            /\ store' = r.st.store
            /\ disk' = r.st.disk
            /\ locked' = r.st.locked
            /\ last' = [op |-> "delete", force |-> run.cmd.Force, all |-> run.cmd.All,
                        byID |-> run.cmd.ID # <<>>, byName |-> run.cmd.Name # <<>>,
                        fault |-> run.env.fault, at |-> run.env.at, stdin |-> run.stdin,
                        err |-> r.err, keys |-> r.keys, done |-> r.done]
            /\ UNCHANGED written

\* an environment directory is removed behind scratch's back (rm -rf)
OobRemove ==
    \E c \in EnvPaths \cap DOMAIN disk :
        /\ last = Idle
        /\ disk' = [p \in DOMAIN disk \ Subtree(disk, c) |-> disk[p]]
        /\ locked' = locked \ Subtree(disk, c)
        /\ UNCHANGED <<store, written, last>>

\* the data directory loses, or gets back, its search permission (chmod)
OobChmod ==
    /\ last = Idle
    /\ Components(DefaultDataDir) \in DOMAIN disk
    /\ locked' = IF Components(DefaultDataDir) \in locked
                 THEN locked \ {Components(DefaultDataDir)}
                 ELSE locked \cup {Components(DefaultDataDir)}
    /\ UNCHANGED <<store, disk, written, last>>

\* main: the command has returned and the process exits
Exit ==
    /\ last # Idle
    /\ last' = Idle
    /\ UNCHANGED <<store, disk, locked, written>>

Next == Create \/ List \/ Delete \/ OobRemove \/ OobChmod \/ Exit

Spec == Init /\ [][Next]_vars

(***************************************************************************)
(* The state machine of the store on its own: any sequence of calls.       *)
(***************************************************************************)
\* Put has stored v under k
Put(w, k, v, db) ==
    [w EXCEPT ![k] = [state |-> "put", val |-> v, upsert |-> k \in DOMAIN db]]

\* Delete has removed k
Deleted(w, k) == [w EXCEPT ![k] = [state |-> "deleted", val |-> <<>>, upsert |-> FALSE]]

CallPut ==
    \E k \in StoreKeys, v \in Payloads, io \in BOOLEAN :
        \E r \in {StorePut(store, k, v, io)} :
            /\ store' = r.db
            /\ written' = IF r.err = "none" THEN Put(written, k, v, store) ELSE written
            /\ last' = [op |-> "store.put", key |-> k, io |-> io, err |-> r.err]
            /\ UNCHANGED <<disk, locked>>

CallGet ==
    \E k \in StoreKeys, io \in BOOLEAN :
        \E r \in {StoreGet(store, k, io)} :
            /\ last' = [op |-> "store.get", key |-> k, io |-> io, err |-> r.err,
                        val |-> r.val]
            /\ UNCHANGED <<store, disk, locked, written>>

CallExists ==
    \E k \in StoreKeys, io \in BOOLEAN :
        \E r \in {StoreExists(store, k, io)} :
            /\ last' = [op |-> "store.exists", key |-> k, io |-> io, err |-> r.err,
                        ok |-> r.ok]
            /\ UNCHANGED <<store, disk, locked, written>>

CallDelete ==
    \E k \in StoreKeys, io \in BOOLEAN :
        \E r \in {StoreDelete(store, k, io)} :
            /\ store' = r.db
            /\ written' = IF r.err = "none" THEN Deleted(written, k) ELSE written
            /\ last' = [op |-> "store.delete", key |-> k, io |-> io, err |-> r.err,
                        present |-> k \in DOMAIN store]
            /\ UNCHANGED <<disk, locked>>

NextStore == CallPut \/ CallGet \/ CallExists \/ CallDelete

SpecStore == Init /\ [][NextStore]_vars

(***************************************************************************)
(* CommandsExist and Ready called on their own, with some commands on PATH. *)
(***************************************************************************)
MaxArgs == 2

Commands == {"uv", "git", "go"}

\* the argument lists of CommandsExist: up to MaxArgs names
RECURSIVE ArgLists(_)
ArgLists(n) ==
    IF n = 0 THEN {<<>>}
    ELSE ArgLists(n - 1)
         \cup {Append(a, c) : a \in {x \in ArgLists(n - 1) : Len(x) = n - 1}, c \in Commands}

CallCommandsExist ==
    \E names \in ArgLists(MaxArgs), installed \in SUBSET Commands :
        \E r \in {CommandsExist(names, installed)} :
            /\ last' = [op |-> "CommandsExist", names |-> names, installed |-> installed,
                        err |-> r.err, name |-> r.name]
            /\ UNCHANGED <<store, disk, locked, written>>

CallReady ==
    \E installed \in SUBSET Commands :
        /\ last' = [op |-> "Ready", names |-> <<"uv">>, installed |-> installed,
                    err |-> Ready(installed),
                    name |-> CommandsExist(<<"uv">>, installed).name]
        /\ UNCHANGED <<store, disk, locked, written>>

NextCommands == CallCommandsExist \/ CallReady

SpecCommands == Init /\ [][NextCommands]_vars

(***************************************************************************)
(* Spec values on their own: NewSpec, Spec.Save into a store, LoadSpec of  *)
(* what is stored, and scratch delete --name on that store.  Names here    *)
(* also have a space, a separator, and a byte that is not valid UTF-8.     *)
(***************************************************************************)
MaxStored == 2

SpecNames == {<<"a">>, <<"a", " ", "b">>, <<"a", "/", "b">>, <<"xFF">>}

BaseDirs == {DefaultDataDir, <<"/", "d", "/", "a">>}

\* Spec.Save of NewSpec(name, t, wd)
SaveSpec ==
    \E name \in SpecNames, t \in Types, wd \in BaseDirs, io \in BOOLEAN :
        \E sv \in {Save(NewSpec(name, t, wd), store, io)} :
            /\ Cardinality(DOMAIN sv.db) <= MaxStored
            /\ store' = sv.db
            /\ last' = [op |-> "Save", name |-> name, type |-> t, wd |-> wd,
                        spec |-> NewSpec(name, t, wd), id |-> ID(NewSpec(name, t, wd)),
                        err |-> sv.err]
            /\ UNCHANGED <<disk, locked, written>>

\* LoadSpec of the payload stored under a key
LoadStored ==
    \E key \in DOMAIN store :
        \E ld \in {LoadSpec(store[key])} :
            /\ last' = [op |-> "LoadSpec", key |-> key, data |-> store[key],
                        err |-> ld.err, spec |-> ld.spec]
            /\ UNCHANGED <<store, disk, locked, written>>

\* scratch delete --name name --type t --force
DeleteNamed ==
    \E name \in SpecNames, t \in Types :
        \E r \in {DeleteMain([NoFlags EXCEPT !.Name = name, !.Type = t, !.Force = TRUE],
                             [store |-> store, disk |-> disk, locked |-> locked,
                              stdin |-> <<>>], Quiet)} :
            /\ store' = r.st.store
            /\ disk' = r.st.disk
            /\ locked' = r.st.locked
            /\ last' = [op |-> "delete", name |-> name, type |-> t,
                        err |-> r.err, keys |-> r.keys, done |-> r.done]
            /\ UNCHANGED written

NextCodec == SaveSpec \/ LoadStored \/ DeleteNamed

SpecCodec == Init /\ [][NextCodec]_vars

(***************************************************************************)
(* askForConfirmation on its own, reading up to MaxLines lines.            *)
(***************************************************************************)
MaxLines == 3

\* lines that can be typed: one word, nothing, or two words
Lines ==
    {<<w>> : w \in {"y", "yes", "n", "no", "x"}} \cup {<<>>, <<"y", "y">>, <<"x", "no">>}

RECURSIVE Typed(_)
Typed(n) ==
    IF n = 0 THEN {<<>>}
    ELSE Typed(n - 1)
         \cup {Append(t, l) : t \in {x \in Typed(n - 1) : Len(x) = n - 1}, l \in Lines}

Ask ==
    \E lines \in Typed(MaxLines) :
        \E r \in {askForConfirmation(lines)} :
            /\ last' = [op |-> "askForConfirmation", lines |-> lines, ok |-> r.ok,
                        err |-> r.err, prompts |-> r.prompts, rest |-> r.rest]
            /\ UNCHANGED <<store, disk, locked, written>>

NextAsk == Ask

SpecAsk == Init /\ [][NextAsk]_vars

(***************************************************************************)
(* scratch new and scratch list on a store that something else also writes *)
(* to with PebbleStore.Put: bytes that are not the JSON of a Spec.          *)
(***************************************************************************)
\* a payload that was cut off
Malformed == <<"{", "Name", <<"a">>>>

\* the key of an entry scratch did not write
RawKey == SpecID(PythonSpec, <<"b">>)

PutRaw ==
    \E key \in DOMAIN store \cup {RawKey} :
        /\ last = Idle
        /\ store' = StorePut(store, key, Malformed, FALSE).db
        /\ UNCHANGED <<disk, locked, written, last>>

NextRaw == Create \/ List \/ PutRaw \/ Exit

SpecRaw == Init /\ [][NextRaw]_vars

(***************************************************************************)
(* Only runs of scratch new and scratch delete --force that return no      *)
(* error, with nothing failing around them and nobody else touching the    *)
(* filesystem.                                                             *)
(***************************************************************************)
MaxLive == 3

LiveNames == {NameList[i] : i \in 1..(IF MaxLive <= Len(NameList) THEN MaxLive ELSE Len(NameList))}

\* the runs of scratch new, with and without -d
LiveNews ==
    {[Name |-> n, Type |-> PythonSpec, Directory |-> w, NoOpen |-> o,
      env |-> [fault |-> "none", reach |-> Depth]] :
        n \in LiveNames, w \in Directories, o \in BOOLEAN}

\* the runs of scratch delete --force: by --id, by --name, and --all
LiveDeletes ==
    {[cmd |-> c, env |-> Quiet, stdin |-> <<>>] :
        c \in {[NoFlags EXCEPT !.ID = SpecID(PythonSpec, n), !.Force = TRUE] : n \in LiveNames}
               \cup {[NoFlags EXCEPT !.Name = n, !.Force = TRUE] : n \in LiveNames}
               \cup {[NoFlags EXCEPT !.All = TRUE, !.Force = TRUE]}}

CreateLive ==
    \E c \in {x \in LiveNews : last = Idle} :
        \E r \in {NewCmdRun(c, store, disk, locked, c.env)} :
            /\ r.err = "none"
            /\ store' = r.store
            /\ disk' = r.disk
            /\ last' = [op |-> "new", id |-> r.id, path |-> r.path, type |-> c.Type,
                        noOpen |-> c.NoOpen, fault |-> c.env.fault,
                        err |-> r.err, build |-> r.build,
                        bsteps |-> r.bsteps, steps |-> r.steps]
            /\ UNCHANGED <<locked, written>>

DeleteLive ==
    \E run \in {x \in LiveDeletes : last = Idle} :
        \E r \in {DeleteMain(run.cmd,
                             [store |-> store, disk |-> disk, locked |-> locked,
                              stdin |-> run.stdin], run.env)} :
            /\ r.err = "none"
            /\ store' = r.st.store
            /\ disk' = r.st.disk
            /\ locked' = r.st.locked
            /\ last' = [op |-> "delete", force |-> run.cmd.Force, all |-> run.cmd.All,
                        byID |-> run.cmd.ID # <<>>, byName |-> run.cmd.Name # <<>>,
                        fault |-> run.env.fault, at |-> run.env.at, stdin |-> run.stdin,
                        err |-> r.err, keys |-> r.keys, done |-> r.done]
            /\ UNCHANGED written

NextLive == CreateLive \/ DeleteLive \/ Exit

SpecLive == Init /\ [][NextLive]_vars

(***************************************************************************)
(* Properties.                                                             *)
(***************************************************************************)
Has(seq, x) == \E i \in 1..Len(seq) : seq[i] = x

\* the steps of seq are distinct and occur in the order of order
InOrder(seq, order) ==
    \A i, j \in 1..Len(seq) :
        i < j => \E m, n \in 1..Len(order) :
                    m < n /\ order[m] = seq[i] /\ order[n] = seq[j]

\* the directory the entry of key k names
KeyDir(db, k) == Components(LoadSpec(db[k]).spec.Path)

BuildOrder == <<"Resolve", "CheckReady", "CheckFree", "CreateDirs", "Provision">>

DeleteOrder == <<"Get", "Load", "Confirm", "RemoveAll", "Delete">>

\* the errors with which a step of Build can end the attempt
StepErrors(step) ==
    CASE step = "Resolve"    -> {"unknown environment type"}
      [] step = "CheckReady" -> {"provisioner not ready"}
      [] step = "CheckFree"  -> {"environment already exists at location"}
      [] step = "CreateDirs" -> {"ensure output directory"}
      [] step = "Provision"  -> {"ensure directory exists", "init uv", "uv venv"}

\* C1: a run of scratch new leaves the store as it was unless Scaffolder.Build
\* returned success; when it does change the store, Build has run all its
\* steps, the only new key is the identifier of the Spec, and the directory
\* of the Spec holds a provisioned environment.
C1_SavedOnlyAfterBuild ==
    [][last'.op = "new" =>
          /\ (last'.build # "none" => store' = store)
          /\ (store' # store =>
                /\ last'.build = "none"
                /\ last'.bsteps = BuildOrder
                /\ DOMAIN store' = DOMAIN store \cup {last'.id}
                /\ KeyDir(store', last'.id) \in DOMAIN disk'
                /\ disk'[KeyDir(store', last'.id)] = "env")]_vars

\* a run in which uv venv failed after the directory was made: nothing is stored
C1_ProvisionFailed ==
    /\ last.op = "new"
    /\ last.build = "uv venv"
    /\ Components(last.path) \in DOMAIN disk
    /\ last.id \notin DOMAIN store

\* C2 (amended): in a single delete the steps run in the order Get, Load,
\* Confirm, RemoveAll, Delete; when os.RemoveAll fails the store is left as
\* it was and Storer.Delete is not called; and when the delete removes the
\* store entry, the directory of the entry is gone afterwards, unless os.Stat
\* could not see it when the delete ran (a directory above it could not be
\* searched), in which case it is left where it is.
C2_RemoveBeforeDelete ==
    [][last'.op = "delete" /\ ~last'.all /\ Len(last'.keys) = 1 =>
          /\ InOrder(last'.done[1], DeleteOrder)
          /\ (last'.err = "remove environment" =>
                store' = store /\ ~Has(last'.done[1], "Delete"))
          /\ (last'.keys[1] \in DOMAIN store \ DOMAIN store' =>
                \/ KeyDir(store, last'.keys[1]) \notin DOMAIN disk'
                \/ ~StatAt(disk, locked, KeyDir(store, last'.keys[1])))]_vars

\* a single delete whose os.RemoveAll failed: the entry is still in the store
C2_RemoveFailed ==
    /\ last.op = "delete"
    /\ ~last.all
    /\ last.err = "remove environment"
    /\ last.done = <<<<"Get", "Load", "RemoveAll">>>>
    /\ last.keys[1] \in DOMAIN store

\* C2 as stated: a single delete never ends with the store entry gone while
\* the directory of the entry still exists.
C2_NeverOrphansDirectory ==
    [][last'.op = "delete" /\ ~last'.all /\ Len(last'.keys) = 1 =>
          (last'.keys[1] \in DOMAIN store \ DOMAIN store' =>
                KeyDir(store, last'.keys[1]) \notin DOMAIN disk')]_vars

\* C3: a run of scratch new for an identifier that has a store entry returns
\* an error and changes neither the filesystem nor the store, Scaffolder.Build
\* not being called, whatever the output directory; when the store could be
\* opened and read, the error is the duplicate-environment error.
C3_DuplicateRefused ==
    [][last'.op = "new" /\ last'.id \in DOMAIN store =>
          /\ last'.err # "none"
          /\ last'.build = "skipped"
          /\ disk' = disk
          /\ store' = store
          /\ (last'.fault \notin {"home", "open", "exists"} =>
                last'.err = "already exists elsewhere")]_vars

\* a duplicate refused although the run named another output directory than
\* the stored Spec has
C3_DuplicateElsewhere ==
    /\ last.op = "new"
    /\ last.err = "already exists elsewhere"
    /\ last.id \in DOMAIN store
    /\ LoadSpec(store[last.id]).spec.Path # last.path

\* the lists scratch list would print in the state <<db, d, lk>>
Reports(db, d, lk) ==
    {ListCmdRun(l, db, d, lk, l.env).reported : l \in {x \in ListRuns : x.env.fault = "none"}}

\* C4 (amended): after a forced single delete of a key of the store that
\* returns no error, the store entry is gone and scratch list does not report
\* the key; the directory of the entry is gone too, unless os.Stat could not
\* see it when the delete ran, in which case it is left where it is.
C4_ForcedDeleteRemoves ==
    [][/\ last'.op = "delete" /\ ~last'.all /\ last'.force /\ last'.err = "none"
       /\ Len(last'.keys) = 1 /\ last'.keys[1] \in DOMAIN store
       =>
          /\ last'.keys[1] \notin DOMAIN store'
          /\ \/ KeyDir(store, last'.keys[1]) \notin DOMAIN disk'
             \/ ~StatAt(disk, locked, KeyDir(store, last'.keys[1]))
          /\ \A r \in Reports(store', disk', locked') : ~Has(r, last'.keys[1])]_vars

\* a forced single delete that removed the directory and the entry
C4_ForcedDeleteDone ==
    /\ last.op = "delete"
    /\ ~last.all
    /\ last.force
    /\ last.err = "none"
    /\ last.done = <<<<"Get", "Load", "RemoveAll", "Delete">>>>
    /\ last.keys[1] \notin DOMAIN store

\* C4 as stated: after such a delete the directory is absent, the entry is
\* absent and scratch list does not report the key.
C4_DirectoryAlwaysAbsent ==
    [][/\ last'.op = "delete" /\ ~last'.all /\ last'.force /\ last'.err = "none"
       /\ Len(last'.keys) = 1 /\ last'.keys[1] \in DOMAIN store
       =>
          /\ last'.keys[1] \notin DOMAIN store'
          /\ KeyDir(store, last'.keys[1]) \notin DOMAIN disk'
          /\ \A r \in Reports(store', disk', locked') : ~Has(r, last'.keys[1])]_vars

C6_ListReportsMissing ==
    [][last'.op = "list" =>
          /\ store' = store /\ disk' = disk /\ locked' = locked
          /\ (last'.fault = "none" =>
                /\ last'.err = "none"
                /\ last'.visited = SortedKeys(DOMAIN store)
                /\ \A k \in DOMAIN store :
                      /\ KeyDir(store, k) \notin DOMAIN disk =>
                            Has(last'.logged, k) /\ ~Has(last'.reported, k)
                      /\ StatAt(disk, locked, KeyDir(store, k)) =>
                            Has(last'.reported, k) /\ ~Has(last'.logged, k))]_vars

\* a listing that logged an entry whose directory is missing and went on to
\* print an entry after it
C6_MissingThenPrinted ==
    /\ last.op = "list"
    /\ last.err = "none"
    /\ \E i, j \in 1..Len(last.visited) :
          /\ i < j
          /\ KeyDir(store, last.visited[i]) \notin DOMAIN disk
          /\ Has(last.logged, last.visited[i])
          /\ Has(last.reported, last.visited[j])

\* C7 (amended): Scaffolder.Build for a path that exists on disk returns an
\* error and leaves the filesystem and the store as they were; the error is
\* the already-exists error of CheckFree when Resolve and CheckReady have
\* succeeded and os.Stat can see the path; when a directory above the path
\* cannot be searched, os.Stat fails and Build ends at CreateDirs instead.
C7_ExistingPathUntouched ==
    [][/\ last'.op = "new" /\ last'.build # "skipped"
       /\ Components(last'.path) \in DOMAIN disk
       =>
          /\ last'.build # "none"
          /\ disk' = disk
          /\ store' = store
          /\ ~Has(last'.bsteps, "Provision")
          /\ IF StatAt(disk, locked, Components(last'.path))
             THEN Has(last'.bsteps, "CheckFree") =>
                    /\ last'.build = "environment already exists at location"
                    /\ last'.bsteps = <<"Resolve", "CheckReady", "CheckFree">>
             ELSE Has(last'.bsteps, "CheckFree") =>
                    /\ last'.build = "ensure output directory"
                    /\ last'.bsteps = <<"Resolve", "CheckReady", "CheckFree", "CreateDirs">>]_vars

\* Build refused a path at which an environment had been provisioned before
C7_SecondBuildRefused ==
    /\ last.op = "new"
    /\ last.build = "environment already exists at location"
    /\ Components(last.path) \in DOMAIN disk
    /\ disk[Components(last.path)] = "env"

\* C7 as stated, for a known type with uv installed: Build for a path that
\* exists on disk fails with the already-exists error and modifies nothing.
C7_AlwaysAlreadyExists ==
    [][/\ last'.op = "new" /\ last'.build # "skipped"
       /\ last'.type = PythonSpec /\ last'.fault = "none"
       /\ Components(last'.path) \in DOMAIN disk
       =>
          /\ last'.build = "environment already exists at location"
          /\ disk' = disk]_vars

\* C8: the steps Scaffolder.Build runs are an initial part of Resolve,
\* CheckReady, CheckFree, CreateDirs, Provision, each once; Build succeeds
\* only when all five ran, and when it fails the error is the one of the last
\* step that ran; for an unknown type only Resolve runs and the filesystem is
\* left as it was.
C8_BuildStepsInOrder ==
    [][last'.op = "new" /\ last'.build # "skipped" =>
          /\ last'.bsteps # <<>>
          /\ IsPrefix(last'.bsteps, BuildOrder)
          /\ (last'.build = "none" => last'.bsteps = BuildOrder)
          /\ (last'.build # "none" =>
                last'.build \in StepErrors(last'.bsteps[Len(last'.bsteps)]))
          /\ (last'.type # PythonSpec =>
                /\ last'.bsteps = <<"Resolve">>
                /\ last'.build = "unknown environment type"
                /\ disk' = disk
                /\ store' = store)]_vars

\* Build for an unknown type, in a state where directories exist, ended at Resolve
C8_UnknownTypeAtResolve ==
    /\ last.op = "new"
    /\ last.type = UnknownSpec
    /\ last.bsteps = <<"Resolve">>
    /\ last.build = "unknown environment type"
    /\ Components(last.path) \in DOMAIN disk

\* C9: over any sequence of store calls that the engine does not fail with
\* an I/O error: Exists returns false and no error for a key never put; once
\* a key has been put, Exists returns true and Get returns the value of the
\* latest Put; once it has been deleted, Exists returns false and no error.
C9_StoreLaws ==
    [][/\ (last'.op = "store.exists" /\ ~last'.io =>
             /\ last'.err = "none"
             /\ last'.ok = (written[last'.key].state = "put"))
       /\ (last'.op = "store.get" /\ ~last'.io /\ written[last'.key].state = "put" =>
             /\ last'.err = "none"
             /\ last'.val = written[last'.key].val)
       /\ (last'.op = "store.put" /\ ~last'.io =>
             /\ last'.err = "none"
             /\ last'.key \in DOMAIN store'
             /\ \A k \in DOMAIN store \ {last'.key} :
                   k \in DOMAIN store' /\ store'[k] = store[k])
       /\ (last'.op = "store.delete" /\ ~last'.io =>
             /\ last'.key \notin DOMAIN store'
             /\ \A k \in DOMAIN store \ {last'.key} :
                   k \in DOMAIN store' /\ store'[k] = store[k])]_vars

\* Get returned the value of a Put that replaced an earlier value
C9_GetAfterUpsert ==
    /\ last.op = "store.get"
    /\ last.err = "none"
    /\ written[last.key].state = "put"
    /\ written[last.key].upsert
    /\ last.val = written[last.key].val

\* C10 as stated: Delete of a key that is not in the store returns the
\* not-found error and leaves the store as it was.
C10_DeleteAbsentNotFound ==
    [][last'.op = "store.delete" /\ ~last'.io /\ ~last'.present =>
          last'.err = "ErrNotFound" /\ store' = store]_vars

\* the errors with which scratch delete ends before DeleteCmd.Run lists a key
StartErrors ==
    {"--all cannot be used with a specific ID or Name",
     "specify either --id OR --name, not both",
     "must specify --id, --name, or --all", "home dir", "get db"}

\* key number i of the snapshot is behind the keys that were handled and its
\* directory is not inside the directory of one of them
ApartFromHandled(db, keys, n, i) ==
    \A j \in 1..n : ~IsPrefix(KeyDir(db, keys[j]), KeyDir(db, keys[i]))

ValidateErrors ==
    {"--all cannot be used with a specific ID or Name",
     "specify either --id OR --name, not both",
     "must specify --id, --name, or --all"}

\* how many of --id, --name and --all the last run of scratch delete was given
Selectors(l) ==
    (IF l.byID THEN 1 ELSE 0) + (IF l.byName THEN 1 ELSE 0) + (IF l.all THEN 1 ELSE 0)

\* C12: scratch delete is accepted by DeleteCmd.Validate exactly when one of
\* --id, --name and --all is given; every other combination, the empty one
\* included, ends with a validation error before the store is opened: no key
\* is looked at and nothing changes, even when the store could not be opened.
C12_ExactlyOneSelector ==
    [][last'.op = "delete" =>
          /\ Selectors(last') = 1 => last'.err \notin ValidateErrors
          /\ Selectors(last') # 1 =>
                /\ last'.err \in ValidateErrors
                /\ last'.keys = <<>> /\ last'.done = <<>>
                /\ store' = store /\ disk' = disk /\ locked' = locked]_vars

\* --id and --name together were refused on a store that holds an entry and
\* could not have been opened
C12_BothRefused ==
    /\ last.op = "delete"
    /\ last.byID /\ last.byName /\ ~last.all
    /\ last.fault = "open"
    /\ last.err = "specify either --id OR --name, not both"
    /\ DOMAIN store # {}

\* the commands the error of the last readiness check names
Named(l) == IF l.err = "none" THEN {} ELSE {l.name}

\* C13 as stated: the readiness check looks at all required commands, and its
\* error names every required command that is not on PATH.
C13_NamesEveryMissing ==
    last.op \in {"CommandsExist", "Ready"} =>
        Named(last) = {last.names[i] : i \in 1..Len(last.names)} \ last.installed

\* C14: scratch new calls OpenFolder only after Spec.Save has stored the Spec
\* and only without --no-open, and it does call it then; when OpenFolder
\* fails the run returns that error, and the store entry and the directory
\* that were just made both stay.
C14_OpenAfterSaveNoRollback ==
    [][last'.op = "new" =>
          /\ Has(last'.steps, "Open") <=>
                /\ ~last'.noOpen
                /\ Has(last'.steps, "Save")
                /\ last'.fault # "put"
          /\ Has(last'.steps, "Open") =>
                /\ last'.steps = <<"Exists", "Build", "Save", "Open">>
                /\ last'.build = "none"
                /\ last'.id \in DOMAIN store' /\ last'.id \notin DOMAIN store
                /\ KeyDir(store', last'.id) = Components(last'.path)
                /\ Components(last'.path) \in DOMAIN disk'
                /\ disk'[Components(last'.path)] = "env"
                /\ last'.err = (IF last'.fault = "openfolder" THEN "open folder" ELSE "none")
          /\ last'.err = "open folder" => Has(last'.steps, "Open")]_vars

\* the folder could not be opened, and the environment is stored and on disk
C14_OpenFailedKept ==
    /\ last.op = "new"
    /\ last.err = "open folder"
    /\ last.id \in DOMAIN store
    /\ Components(last.path) \in DOMAIN disk
    /\ disk[Components(last.path)] = "env"

\* C15 as stated: Spec.Save of any Spec that returns no error writes one store
\* entry, under the key Spec.ID(), and LoadSpec of the stored payload returns
\* a Spec equal to the one saved.
C15_SaveLoadRoundTrip ==
    [][last'.op = "Save" /\ last'.err = "none" =>
          /\ DOMAIN store' = DOMAIN store \cup {ID(last'.spec)}
          /\ \A k \in DOMAIN store \ {ID(last'.spec)} : store'[k] = store[k]
          /\ LoadSpec(store'[ID(last'.spec)]) = [err |-> "none", spec |-> last'.spec]]_vars

\* C16: for every name, type and base directory NewSpec gives the Spec the
\* path filepath.Join(base directory, name), the components of the base
\* directory followed by those of the name, and the identifier type ":" name,
\* also for names with a separator or a space; Spec.Save stores it under that
\* identifier, and scratch delete --name --type looks up exactly that
\* identifier, so it finds and deletes what was saved under the name and type.
C16_PathAndIdentifier ==
    [][/\ last'.op = "Save" =>
             /\ last'.spec.Name = last'.name /\ last'.spec.Type = last'.type
             /\ last'.spec.Path = Join(last'.wd, last'.name)
             /\ Components(last'.spec.Path)
                    = Components(last'.wd) \o Components(last'.name)
             /\ last'.id = last'.type \o <<":">> \o last'.name
             /\ last'.err = "none" => last'.id \in DOMAIN store'
       /\ last'.op = "delete" =>
             /\ last'.keys = <<last'.type \o <<":">> \o last'.name>>
             /\ last'.keys[1] \in DOMAIN store =>
                   /\ last'.err = "none"
                   /\ Has(last'.done[1], "Delete")
                   /\ DOMAIN store' = DOMAIN store \ {last'.keys[1]}]_vars

\* an entry saved under a name with a separator was found and deleted by its
\* name and type, next to an entry saved under a name with a space
C16_DeletedByName ==
    /\ last.op = "delete"
    /\ last.name = <<"a", "/", "b">>
    /\ last.err = "none"
    /\ Has(last.done[1], "Delete")
    /\ SpecID(PythonSpec, <<"a", " ", "b">>) \in DOMAIN store

\* C17 as stated: a Spec whose type has no provisioner is never accepted
\* silently: LoadSpec of a stored payload with such a type returns an error,
\* and Scaffolder.Build of such a Spec returns an error.
C17_UnknownTypeRefused ==
    /\ last.op = "LoadSpec" /\ Provisioner(FieldOf(SubSeq(last.data, 2, Len(last.data) - 1),
                                                   "Type", <<>>)).err # "none"
          => last.err # "none"
    /\ last.op \in {"LoadSpec", "Save"} /\ Provisioner(last.spec.Type).err # "none"
          => Build(last.spec, disk, locked, [fault |-> "none", reach |-> Depth]).err # "none"

\* the prompt that reads the lines answers no: n or no, after any number of
\* single words that are no answer
Declines(lines) ==
    askForConfirmation(lines).err = "none" /\ ~askForConfirmation(lines).ok

\* C18: scratch delete of one stored key without --force whose prompt is
\* answered no returns no error and leaves the store and the filesystem as
\* they were; with --force no key is asked about, without it every key that
\* was loaded is; and in delete --all a key that is declined keeps its entry
\* and the batch goes on to ask about the next key.
C18_DeclinedKeepsAll ==
    [][last'.op = "delete" /\ last'.err \notin StartErrors =>
          /\ \A i \in 1..Len(last'.done) :
                /\ last'.force => ~Has(last'.done[i], "Confirm")
                /\ ~last'.force /\ Len(last'.done[i]) > 2 => last'.done[i][3] = "Confirm"
          /\ /\ ~last'.force
             /\ last'.keys # <<>>
             /\ last'.keys[1] \in DOMAIN store
             /\ Declines(last'.stdin)
             =>
                /\ last'.done[1] = <<"Get", "Load", "Confirm">>
                /\ last'.keys[1] \in DOMAIN store'
                /\ store'[last'.keys[1]] = store[last'.keys[1]]
                /\ ~last'.all =>
                      /\ last'.err = "none"
                      /\ store' = store /\ disk' = disk /\ locked' = locked
                /\ last'.all /\ Len(last'.keys) > 1 =>
                      /\ Len(last'.done) > 1
                      /\ SubSeq(last'.done[2], 1, 3) = <<"Get", "Load", "Confirm">>]_vars

\* in delete --all the first key was declined and kept, and the second was
\* confirmed and deleted
C18_DeclinedThenDeleted ==
    /\ last.op = "delete"
    /\ last.all /\ ~last.force
    /\ last.stdin = <<<<"n">>, <<"y">>>>
    /\ last.err = "none"
    /\ Len(last.keys) = 2
    /\ last.done[1] = <<"Get", "Load", "Confirm">>
    /\ Has(last.done[2], "Delete")
    /\ last.keys[1] \in DOMAIN store
    /\ last.keys[2] \notin DOMAIN store

\* the lines that are a recognized answer
Recognized == {<<"y">>, <<"yes">>, <<"n">>, <<"no">>}

\* C19 as stated: askForConfirmation prompts again after every line that is
\* not y, yes, n or no, an empty line and a line of several words included,
\* and returns only at a recognized answer: when line k is the first
\* recognized answer it has prompted k times and returns true for y and yes,
\* false for n and no, without error.
C19_RepromptsUntilRecognized ==
    last.op = "askForConfirmation" =>
        \A k \in 1..Len(last.lines) :
            /\ last.lines[k] \in Recognized
            /\ \A j \in 1..(k - 1) : last.lines[j] \notin Recognized
            =>
               /\ last.err = "none"
               /\ last.prompts = k
               /\ last.ok = (last.lines[k] \in {<<"y">>, <<"yes">>})

\* the places in the key order of db of the entries LoadSpec does not decode
Undecodable(db) ==
    {i \in 1..Cardinality(DOMAIN db) : LoadSpec(db[SortedKeys(DOMAIN db)[i]]).err # "none"}

\* C20: scratch list on a store that can be opened and read visits the
\* entries in key order up to the first whose payload LoadSpec does not
\* decode and returns that decode error: no entry behind it is visited,
\* printed or logged, and every entry before it has been printed, or logged
\* when its directory is missing.  Without such an entry it visits them all.
C20_DecodeFailureAborts ==
    [][last'.op = "list" /\ last'.fault = "none" =>
          /\ store' = store
          /\ Undecodable(store) = {} =>
                last'.err = "none" /\ last'.visited = SortedKeys(DOMAIN store)
          /\ \A f \in Undecodable(store) :
                (\A g \in Undecodable(store) : f <= g) =>
                    /\ last'.err = "unmarshal spec"
                    /\ last'.visited = SubSeq(SortedKeys(DOMAIN store), 1, f)
                    /\ \A i \in 1..Cardinality(DOMAIN store) :
                          Has(last'.reported, SortedKeys(DOMAIN store)[i])
                              \/ Has(last'.logged, SortedKeys(DOMAIN store)[i])
                          <=> i < f
                    /\ Len(last'.lines) = Len(last'.reported)
                    /\ Len(last'.reported) + Len(last'.logged) = f - 1]_vars

\* a listing printed the first entry, stopped at the second, which does not
\* decode, and never came to the third
C20_AbortedInTheMiddle ==
    /\ last.op = "list"
    /\ last.err = "unmarshal spec"
    /\ Cardinality(DOMAIN store) = 3
    /\ Len(last.visited) = 2
    /\ Len(last.reported) = 1
    /\ last.reported[1] = SortedKeys(DOMAIN store)[1]

\* the directory at components c is there and holds no finished environment,
\* as a failed Provision leaves it
Leftover(d, c) == c \in DOMAIN d /\ d[c] # "env"

\* C21 (amended): when the Provision step of scratch new fails nothing is
\* rolled back: the directory CreateDirs made and everything that was on disk
\* are still there, and the store is as it was, without an entry for the
\* Spec.  While such a directory is there, scratch new for its path ends at
\* CheckFree with the already-exists error and changes nothing, as long as
\* os.Stat can see the directory; when a directory above it cannot be
\* searched, Build ends at CreateDirs instead.
C21_ProvisionFailureLeavesDirectory ==
    [][last'.op = "new" =>
          /\ Has(last'.bsteps, "Provision") /\ last'.build # "none" =>
                /\ last'.err = last'.build
                /\ last'.steps = <<"Exists", "Build">>
                /\ Leftover(disk', Components(last'.path))
                /\ DOMAIN disk \subseteq DOMAIN disk'
                /\ store' = store
                /\ last'.id \notin DOMAIN store'
          /\ /\ last'.build # "skipped"
             /\ last'.type = PythonSpec /\ last'.fault # "uv"
             /\ Leftover(disk, Components(last'.path))
             =>
                /\ disk' = disk /\ store' = store
                /\ IF StatAt(disk, locked, Components(last'.path))
                   THEN /\ last'.build = "environment already exists at location"
                        /\ last'.bsteps = <<"Resolve", "CheckReady", "CheckFree">>
                   ELSE /\ last'.build = "ensure output directory"
                        /\ last'.bsteps = <<"Resolve", "CheckReady", "CheckFree",
                                            "CreateDirs">>]_vars

\* scratch new was refused at CheckFree for a directory that a failed
\* Provision had left, with no entry in the store for it
C21_RefusedAtLeftover ==
    /\ last.op = "new"
    /\ last.build = "environment already exists at location"
    /\ Leftover(disk, Components(last.path))
    /\ disk[Components(last.path)] = "manifest"
    /\ last.id \notin DOMAIN store

\* C21 as stated: while the directory a failed Provision left is on disk, a
\* later scratch new for it fails with the already-exists error at CheckFree.
C21_LeftoverAlwaysRefused ==
    [][/\ last'.op = "new" /\ last'.build # "skipped"
       /\ last'.type = PythonSpec /\ last'.fault = "none"
       /\ Leftover(disk, Components(last'.path))
       /\ disk[Components(last'.path)] = "manifest"
       =>
          /\ last'.build = "environment already exists at location"
          /\ last'.bsteps = <<"Resolve", "CheckReady", "CheckFree">>]_vars

\* C22 as stated: over runs of scratch new and scratch delete --force that all
\* succeed, from an empty store and an empty disk, every entry of the store
\* names a directory that is on disk, and no two entries name the same one.
C22_StoreDiskOneToOne ==
    /\ \A k \in DOMAIN store : KeyDir(store, k) \in DOMAIN disk
    /\ \A k, o \in DOMAIN store : KeyDir(store, k) = KeyDir(store, o) => k = o

====
